---------------------------- MODULE Spec2Model ----------------------------
(***************************************************************************)
(* Batch image renamer: batch_rename_images.py (the full variant, with     *)
(* --dry-run and --start-number) and simple_rename.py (the minimal         *)
(* variant).  A directory is a finite map from entry names to entries; a   *)
(* name is a sequence of one-character strings, so that suffix extraction, *)
(* lower-casing, zero padding and the lexicographic sort are computed as   *)
(* Python computes them.  The filesystem is POSIX and case sensitive, and  *)
(* no other process touches the directory.                                 *)
(***************************************************************************)
EXTENDS Integers, Sequences, FiniteSets, TLC

(***************************************************************************)
(* Bounds of the model.                                                    *)
(***************************************************************************)
MaxEntries == 3
MaxRuns == 2

(***************************************************************************)
(* Characters, in code-point order ("-" < "." < digits < upper < lower).   *)
(***************************************************************************)
Alphabet ==
    << "-", ".",
       "0", "1", "2", "3", "4", "5", "6", "7", "8", "9",
       "A", "B", "C", "D", "E", "F", "G", "H", "I", "J", "K", "L", "M",
       "N", "O", "P", "Q", "R", "S", "T", "U", "V", "W", "X", "Y", "Z",
       "a", "b", "c", "d", "e", "f", "g", "h", "i", "j", "k", "l", "m",
       "n", "o", "p", "q", "r", "s", "t", "u", "v", "w", "x", "y", "z" >>

Ord == [c \in {Alphabet[k] : k \in 1..Len(Alphabet)} |->
           CHOOSE k \in 1..Len(Alphabet) : Alphabet[k] = c]

\* str.lower() on one character: "A".."Z" map to "a".."z", the rest is kept.
LowerChar(c) ==
    IF Ord[c] >= Ord["A"] /\ Ord[c] <= Ord["Z"]
    THEN Alphabet[Ord[c] + (Ord["a"] - Ord["A"])]
    ELSE c

\* str.lower()
Lower(s) == [k \in 1..Len(s) |-> LowerChar(s[k])]

\* str.rfind('.') as a 1-based position, 0 when there is no dot.
RFindDot(s) ==
    LET dots == {k \in 1..Len(s) : s[k] = "."}
    IN  IF dots = {} THEN 0 ELSE CHOOSE k \in dots : \A j \in dots : j <= k

\* PurePath.suffix: the part from the last dot on, unless the dot is the
\* first or the last character of the name.
Suffix(name) ==
    LET i == RFindDot(name)
    IN  IF 1 < i /\ i < Len(name) THEN SubSeq(name, i, Len(name)) ELSE << >>

\* The decimal digits of a natural number.
RECURSIVE Digits(_)
Digits(n) ==
    IF n < 10 THEN << Alphabet[Ord["0"] + n] >>
    ELSE Digits(n \div 10) \o << Alphabet[Ord["0"] + (n % 10)] >>

\* width - Len(s) zeros
Zeros(k) == [j \in 1..k |-> "0"]

\* format(i, "04d"): zero padded to four characters, the sign included.
Pad4(i) ==
    LET d    == Digits(IF i < 0 THEN -i ELSE i)
        sign == IF i < 0 THEN << "-" >> ELSE << >>
        fill == 4 - Len(sign) - Len(d)
    IN  sign \o Zeros(IF fill > 0 THEN fill ELSE 0) \o d

\* Mutant of NewName: the extension keeps its case (no .lower()).
NewName_KeepsCase(i, name) == Pad4(i) \o Suffix(name)

\* new_name = f"{i:04d}{file_path.suffix.lower()}"
NewName(i, name) == Pad4(i) \o Lower(Suffix(name))

\* Python's str "<": the first differing character decides, a proper prefix
\* is smaller.
RECURSIVE StrLess(_, _)
StrLess(a, b) ==
    IF b = << >> THEN FALSE
    ELSE IF a = << >> THEN TRUE
    ELSE IF Head(a) = Head(b) THEN StrLess(Tail(a), Tail(b))
    ELSE Ord[Head(a)] < Ord[Head(b)]

\* Mutant of Sorted: descending order (sorted(..., reverse=True)).
RECURSIVE Sorted_Descending(_)
Sorted_Descending(S) ==
    IF S = {} THEN << >>
    ELSE LET m == CHOOSE x \in S : \A y \in S \ {x} : StrLess(y, x)
         IN  << m >> \o Sorted_Descending(S \ {m})

\* sorted(image_files): ascending by name.
RECURSIVE Sorted(_)
Sorted(S) ==
    IF S = {} THEN << >>
    ELSE LET m == CHOOSE x \in S : \A y \in S \ {x} : StrLess(x, y)
         IN  << m >> \o Sorted(S \ {m})

(***************************************************************************)
(* Recognized extensions.                                                  *)
(***************************************************************************)
IMAGE_EXTENSIONS ==
    { << ".", "j", "p", "g" >>, << ".", "j", "p", "e", "g" >>,
      << ".", "p", "n", "g" >>, << ".", "g", "i", "f" >>,
      << ".", "b", "m", "p" >>, << ".", "t", "i", "f", "f" >>,
      << ".", "t", "i", "f" >>, << ".", "w", "e", "b", "p" >>,
      << ".", "s", "v", "g" >>, << ".", "i", "c", "o" >>,
      << ".", "r", "a", "w" >>, << ".", "c", "r", "2" >>,
      << ".", "n", "e", "f" >>, << ".", "a", "r", "w" >> }

image_extensions ==
    { << ".", "j", "p", "g" >>, << ".", "j", "p", "e", "g" >>,
      << ".", "p", "n", "g" >>, << ".", "g", "i", "f" >>,
      << ".", "b", "m", "p" >>, << ".", "t", "i", "f", "f" >>,
      << ".", "w", "e", "b", "p" >> }

(***************************************************************************)
(* The directory.  dir[n] = [orig |-> the name the entry had in the        *)
(* initial directory (its identity), kind |-> "file" or "dir"].            *)
(***************************************************************************)
IsFile(dir, n) == n \in DOMAIN dir /\ dir[n].kind = "file"

\* The entries that pass "is_file() and suffix.lower() in <extensions>".
Candidates(dir, exts) ==
    {n \in DOMAIN dir : IsFile(dir, n) /\ Lower(Suffix(n)) \in exts}

\* get_image_files: the candidates of the full variant, sorted by name.
get_image_files(dir) == Sorted(Candidates(dir, IMAGE_EXTENSIONS))

\* os.rename(src, dst) raises OSError on its own account: the source is
\* gone, or the destination is a directory and the source is not.
RenameRaises(dir, src, dst) ==
    \/ src \notin DOMAIN dir
    \/ dst \in DOMAIN dir /\ dir[dst].kind = "dir" /\ dir[src].kind # "dir"

\* Mutant of Rename: the source name is left behind (a copy, not a move).
Rename_KeepsSource(dir, src, dst) ==
    [n \in DOMAIN dir \cup {dst} |-> IF n = dst THEN dir[src] ELSE dir[n]]

\* os.rename(src, dst) when it succeeds: the entry moves to dst, silently
\* replacing a file that was there.
Rename(dir, src, dst) ==
    [n \in (DOMAIN dir \ {src}) \cup {dst} |->
        IF n = dst THEN dir[src] ELSE dir[n]]

\* Mutant of RenameImagesEntry: the "target already exists" check is missing.
RenameImagesEntry_NoCollisionCheck(dir, name, i, dry, ok) ==
    LET new_name == NewName(i, name)
    IN  IF name = new_name
        THEN [fs |-> dir, outcome |-> "already", calls |-> 0]
        ELSE IF dry
        THEN [fs |-> dir, outcome |-> "would_rename", calls |-> 0]
        ELSE IF ok /\ ~RenameRaises(dir, name, new_name)
        THEN [fs |-> Rename(dir, name, new_name), outcome |-> "renamed",
              calls |-> 1]
        ELSE [fs |-> dir, outcome |-> "failed", calls |-> 1]

\* Mutant of RenameImagesEntry: dry_run is not consulted before renaming.
RenameImagesEntry_IgnoresDryRun(dir, name, i, dry, ok) ==
    LET new_name == NewName(i, name)
    IN  IF name = new_name
        THEN [fs |-> dir, outcome |-> "already", calls |-> 0]
        ELSE IF new_name \in DOMAIN dir /\ new_name # name
        THEN [fs |-> dir, outcome |-> "collision", calls |-> 0]
        ELSE IF ok /\ ~RenameRaises(dir, name, new_name)
        THEN [fs |-> Rename(dir, name, new_name),
              outcome |-> IF dry THEN "would_rename" ELSE "renamed",
              calls |-> 1]
        ELSE [fs |-> dir, outcome |-> "failed", calls |-> 1]

\* One iteration of the loop of rename_images on the entry `name` with
\* sequence number i.  `ok` is FALSE when the operating system refuses the
\* rename.  The result is the directory afterwards, the outcome printed and
\* the number of rename calls made.
RenameImagesEntry(dir, name, i, dry, ok) ==
    LET new_name == NewName(i, name)
    IN  IF name = new_name
        THEN [fs |-> dir, outcome |-> "already", calls |-> 0]
        ELSE IF new_name \in DOMAIN dir /\ new_name # name
        THEN [fs |-> dir, outcome |-> "collision", calls |-> 0]
        ELSE IF dry
        THEN [fs |-> dir, outcome |-> "would_rename", calls |-> 0]
        ELSE IF ok /\ ~RenameRaises(dir, name, new_name)
        THEN [fs |-> Rename(dir, name, new_name), outcome |-> "renamed",
              calls |-> 1]
        ELSE [fs |-> dir, outcome |-> "failed", calls |-> 1]

\* One iteration of the loop of rename_images_in_folder.
RenameInFolderEntry(dir, name, i, ok) ==
    LET new_name == NewName(i, name)
    IN  IF name = new_name
        THEN [fs |-> dir, outcome |-> "already", calls |-> 0]
        ELSE IF ok /\ ~RenameRaises(dir, name, new_name)
        THEN [fs |-> Rename(dir, name, new_name), outcome |-> "renamed",
              calls |-> 1]
        ELSE [fs |-> dir, outcome |-> "failed", calls |-> 1]

\* The whole loop of a live rename_images run in which no rename is refused:
\* the directory after the entries files[k], files[k+1], ... are processed.
RECURSIVE RunRenameImages(_, _, _, _)
RunRenameImages(dir, files, k, start) ==
    IF k > Len(files) THEN dir
    ELSE RunRenameImages(
             RenameImagesEntry(dir, files[k], start + k - 1, FALSE, TRUE).fs,
             files, k + 1, start)

\* The count of the closing line of a dry run, recomputed from the list:
\* len([f for f in image_files if f.name != f'{index(f)+start:04d}{suffix}'])
WouldRenameCount(files, start) ==
    Cardinality({k \in 1..Len(files) : files[k] # NewName(k - 1 + start, files[k])})

(***************************************************************************)
(* Inputs.                                                                 *)
(***************************************************************************)
N_a_jpg    == << "a", ".", "j", "p", "g" >>
N_b_TIF    == << "b", ".", "T", "I", "F" >>
N_0001_jpg == << "0", "0", "0", "1", ".", "j", "p", "g" >>
N_0001_JPG == << "0", "0", "0", "1", ".", "J", "P", "G" >>
N_0002_jpg == << "0", "0", "0", "2", ".", "j", "p", "g" >>
N_n_txt    == << "n", ".", "t", "x", "t" >>

\* What a directory may hold at the start: files, and one subdirectory whose
\* name looks like a target name.
InitialEntries ==
    { [name |-> N_a_jpg, kind |-> "file"],
      [name |-> N_b_TIF, kind |-> "file"],
      [name |-> N_0001_jpg, kind |-> "file"],
      [name |-> N_0001_JPG, kind |-> "file"],
      [name |-> N_0002_jpg, kind |-> "file"],
      [name |-> N_n_txt, kind |-> "file"],
      [name |-> N_0001_jpg, kind |-> "dir"] }

InitialDirs ==
    {E \in SUBSET InitialEntries :
        /\ Cardinality(E) <= MaxEntries
        /\ \A e1, e2 \in E : e1.name = e2.name => e1 = e2}

DirOf(E) ==
    [n \in {e.name : e \in E} |->
        [orig |-> n, kind |-> (CHOOSE e \in E : e.name = n).kind]]

StartNumbers == {1, 100, 9999}

(***************************************************************************)
(* State.                                                                  *)
(***************************************************************************)
VARIABLES
    fs,             \* the directory
    start_number,   \* --start-number of the session
    pc,             \* "idle", "loop" or "done"
    variant,        \* "full" (rename_images) or "simple" (rename_images_in_folder)
    dry_run,        \* --dry-run
    image_files,    \* the sorted list made at enumeration
    idx,            \* 1-based position of the next entry of image_files
    renamed_count,  \* renamed_count
    summary,        \* the number in the closing line, -1 when there is none
    outcomes,       \* the outcome printed for each entry processed so far
    rename_calls,   \* rename calls made by this run
    fsStart,        \* the directory when this run started
    runs,           \* runs started so far
    prev            \* the finished run before this one, << >> when none

vars == << fs, start_number, pc, variant, dry_run, image_files, idx,
           renamed_count, summary, outcomes, rename_calls, fsStart, runs, prev >>

\* The sequence number of the entry at position k of this run.
SeqNo(k) == IF variant = "full" THEN start_number + k - 1 ELSE k

Init ==
    /\ fs \in {DirOf(E) : E \in InitialDirs}
    /\ start_number \in StartNumbers
    /\ pc = "idle"
    /\ variant = "full"
    /\ dry_run = FALSE
    /\ image_files = << >>
    /\ idx = 1
    /\ renamed_count = 0
    /\ summary = -1
    /\ outcomes = << >>
    /\ rename_calls = 0
    /\ fsStart = fs
    /\ runs = 0
    /\ prev = << >>

\* What a finished run leaves for the next one to be compared with.
RunRecord ==
    [variant |-> variant, dry_run |-> dry_run, image_files |-> image_files,
     outcomes |-> outcomes, fsStart |-> fsStart]

\* Enumeration and the code before the loop, for either variant.
Begin(v, dry, files) ==
    /\ pc \in {"idle", "done"}
    /\ runs < MaxRuns
    /\ runs' = runs + 1
    /\ prev' = IF pc = "done" THEN << RunRecord >> ELSE << >>
    /\ variant' = v
    /\ dry_run' = dry
    /\ image_files' = files
    /\ pc' = IF files = << >> THEN "done" ELSE "loop"
    /\ idx' = 1
    /\ renamed_count' = 0
    /\ summary' = -1
    /\ outcomes' = << >>
    /\ rename_calls' = 0
    /\ fsStart' = fs
    /\ UNCHANGED << fs, start_number >>

\* rename_images(folder, start_number, dry_run) up to the loop.
StartRenameImages ==
    \E dry \in BOOLEAN : Begin("full", dry, get_image_files(fs))

\* rename_images_in_folder(folder) up to the loop.
StartRenameInFolder ==
    Begin("simple", FALSE, Sorted(Candidates(fs, image_extensions)))

\* The result of the loop body on the current entry.
Entry(ok) ==
    IF variant = "full"
    THEN RenameImagesEntry(fs, image_files[idx], SeqNo(idx), dry_run, ok)
    ELSE RenameInFolderEntry(fs, image_files[idx], SeqNo(idx), ok)

\* Mutant of Iterate: an OSError is not caught, so the first failed rename
\* ends the run where it is.
Iterate_AbortsOnFailure(ok) ==
    /\ pc = "loop"
    /\ idx <= Len(image_files)
    /\ LET r == Entry(ok)
       IN  /\ fs' = r.fs
           /\ outcomes' = Append(outcomes, r.outcome)
           /\ rename_calls' = rename_calls + r.calls
           /\ renamed_count' = renamed_count + (IF r.outcome = "renamed" THEN 1 ELSE 0)
           /\ pc' = IF r.outcome = "failed" THEN "done" ELSE pc
           /\ idx' = IF r.outcome = "failed" THEN idx ELSE idx + 1
    /\ UNCHANGED << start_number, variant, dry_run, image_files, summary,
                    fsStart, runs, prev >>

\* One iteration of the loop: the entry at idx is processed, the loop moves on.
Iterate(ok) ==
    /\ pc = "loop"
    /\ idx <= Len(image_files)
    /\ LET r == Entry(ok)
       IN  /\ fs' = r.fs
           /\ outcomes' = Append(outcomes, r.outcome)
           /\ rename_calls' = rename_calls + r.calls
           /\ renamed_count' = renamed_count + (IF r.outcome = "renamed" THEN 1 ELSE 0)
    /\ idx' = idx + 1
    /\ UNCHANGED << start_number, pc, variant, dry_run, image_files, summary,
                    fsStart, runs, prev >>

\* One loop iteration in which the operating system does what it is asked.
Process == Iterate(TRUE)

\* One loop iteration whose rename raises OSError (permissions, device ...).
ProcessRenameFails ==
    /\ pc = "loop"
    /\ idx <= Len(image_files)
    /\ Entry(TRUE).outcome = "renamed"
    /\ Iterate(FALSE)

\* The closing line, after the loop.
Finish ==
    /\ pc = "loop"
    /\ idx > Len(image_files)
    /\ pc' = "done"
    /\ summary' = IF variant = "simple" THEN -1
                  ELSE IF dry_run THEN WouldRenameCount(image_files, start_number)
                  ELSE renamed_count
    /\ UNCHANGED << fs, start_number, variant, dry_run, image_files, idx,
                    renamed_count, outcomes, rename_calls, fsStart, runs, prev >>

Next ==
    \/ StartRenameImages
    \/ StartRenameInFolder
    \/ Process
    \/ ProcessRenameFails
    \/ Finish

Spec == Init /\ [][Next]_vars

(***************************************************************************)
(* Vocabulary of the properties.                                           *)
(***************************************************************************)
Count(seq, v) == Cardinality({k \in DOMAIN seq : seq[k] = v})

InRun == pc \in {"loop", "done"} /\ runs >= 1
FullRun == InRun /\ variant = "full"
LiveFullRun == FullRun /\ ~dry_run
DryFullRun == FullRun /\ dry_run

\* The name the plan gives the entry at position k of this run, spelled out
\* from the specification: pad4(startNumber + i) + lower-cased extension.
PlannedName(k) ==
    Pad4(start_number + (k - 1)) \o Lower(Suffix(image_files[k]))

\* The names under which the file that was image_files[k] at enumeration is
\* found now.
NamesOf(k) ==
    {n \in DOMAIN fs : fs[n].orig = fsStart[image_files[k]].orig}

\* The name without its extension.
Stem(name) == SubSeq(name, 1, Len(name) - Len(Suffix(name)))

\* Dry-run and live outcomes on one scale.
Class(o) == IF o \in {"would_rename", "renamed"} THEN "rename" ELSE o

(***************************************************************************)
(* C1.  Idempotence.                                                       *)
(***************************************************************************)
\* A live run of rename_images that has finished and directly follows a
\* finished live run of rename_images (same start number, same directory).
SecondLiveRun ==
    /\ pc = "done"
    /\ LiveFullRun
    /\ prev # << >>
    /\ prev[1].variant = "full"
    /\ ~prev[1].dry_run

SecondRunIsNoOp ==
    /\ rename_calls = 0
    /\ fs = fsStart
    /\ \A k \in DOMAIN outcomes : outcomes[k] = "already"
    /\ Len(outcomes) = Len(image_files)

\* C1 as stated: for every directory and start number, the second of two
\* live runs skips every entry as already correctly named and renames
\* nothing (read in the claim's favour: no rename is refused in either run).
C1_Idempotence_AsStated ==
    ( /\ SecondLiveRun
      /\ Count(prev[1].outcomes, "failed") = 0
      /\ Count(outcomes, "failed") = 0 )
    => SecondRunIsNoOp

\* C1 amended: when the first run skipped no entry for a collision, none of
\* its renames failed and its sequence numbers lie in 0..9999, the second
\* run skips every entry as already correctly named and renames nothing.
C1_Idempotence ==
    ( /\ SecondLiveRun
      /\ Count(prev[1].outcomes, "collision") = 0
      /\ Count(prev[1].outcomes, "failed") = 0
      /\ start_number >= 0
      /\ start_number + Len(prev[1].image_files) - 1 <= 9999 )
    => SecondRunIsNoOp

C1_Witness ==
    /\ SecondLiveRun
    /\ Count(prev[1].outcomes, "renamed") >= 2
    /\ Count(prev[1].outcomes, "collision") = 0
    /\ Count(prev[1].outcomes, "failed") = 0
    /\ start_number + Len(prev[1].image_files) - 1 <= 9999
    /\ Len(outcomes) >= 2
    /\ SecondRunIsNoOp

(***************************************************************************)
(* C2.  Sequential target names.                                           *)
(***************************************************************************)
AllRenamedToPlan ==
    /\ renamed_count = Len(image_files)
    /\ rename_calls = Len(image_files)
    /\ \A k \in DOMAIN image_files : NamesOf(k) = {PlannedName(k)}

\* No candidate's name is a sequence number of the plan followed by an
\* extension.
NoCandidateIsNumeric ==
    \A k \in DOMAIN image_files :
        Stem(image_files[k]) \notin
            {Pad4(start_number + j) : j \in 0..(Len(image_files) - 1)}

\* C2 as stated: with N candidates none of which bears a numeric target
\* name, a live run performs exactly N renames and the file at position i
\* ends up named pad4(s+i) + lower-cased extension (read in the claim's
\* favour: no rename is refused).
C2_SequentialNames_AsStated ==
    ( /\ pc = "done"
      /\ LiveFullRun
      /\ NoCandidateIsNumeric
      /\ Count(outcomes, "failed") = 0 )
    => AllRenamedToPlan

\* No entry of the directory, candidate or not, bears a planned target name.
NoEntryIsATarget ==
    \A k \in DOMAIN image_files : PlannedName(k) \notin DOMAIN fsStart

\* C2 amended: with N candidates, no entry of the directory (candidate or
\* not) bearing a planned target name and no rename failing, a live run
\* performs exactly N renames and the file at position i ends up named
\* pad4(s+i) + lower-cased extension.
C2_SequentialNames ==
    ( /\ pc = "done"
      /\ LiveFullRun
      /\ NoEntryIsATarget
      /\ Count(outcomes, "failed") = 0 )
    => AllRenamedToPlan

C2_Witness ==
    /\ pc = "done"
    /\ LiveFullRun
    /\ NoEntryIsATarget
    /\ start_number = 100
    /\ Len(image_files) = 3
    /\ \E k \in DOMAIN image_files : Suffix(image_files[k]) # Lower(Suffix(image_files[k]))
    /\ Count(outcomes, "failed") = 0
    /\ AllRenamedToPlan

(***************************************************************************)
(* C3.  Collision policy.                                                  *)
(***************************************************************************)
\* The entry about to be processed finds another entry at its target name.
TargetTaken ==
    /\ pc = "loop"
    /\ FullRun
    /\ idx <= Len(image_files)
    /\ PlannedName(idx) \in DOMAIN fs
    /\ PlannedName(idx) # image_files[idx]

\* C3: whenever an entry is processed while another directory entry holds
\* its target name, the step reports a collision skip, calls no rename and
\* leaves the whole directory as it was.
C3_CollisionPolicy ==
    [][ TargetTaken =>
            /\ outcomes' = Append(outcomes, "collision")
            /\ fs' = fs
            /\ rename_calls' = rename_calls
            /\ renamed_count' = renamed_count ]_vars

C3_Witness ==
    /\ LiveFullRun
    /\ Count(outcomes, "renamed") >= 1
    /\ outcomes[Len(outcomes)] = "collision"
    /\ image_files[Len(outcomes)] \in DOMAIN fs
    /\ PlannedName(Len(outcomes)) \in DOMAIN fs
    /\ fs[PlannedName(Len(outcomes))].kind = "file"

(***************************************************************************)
(* C4.  Dry run does not mutate.                                           *)
(***************************************************************************)
\* C4: throughout a dry run no rename is called and the directory is the
\* one the run started with.
C4_DryRunNeverMutates ==
    DryFullRun => (rename_calls = 0 /\ fs = fsStart)

C4_Witness ==
    /\ DryFullRun
    /\ pc = "done"
    /\ Count(outcomes, "would_rename") >= 2
    /\ rename_calls = 0
    /\ fs = fsStart

(***************************************************************************)
(* C5.  Dry run as a preview of the live run.                              *)
(***************************************************************************)
\* C5 as stated: a live run in which no rename fails classifies every entry
\* as the dry run made just before it on the same directory did.
C5_DryRunPreview_AsStated ==
    ( /\ pc = "done"
      /\ LiveFullRun
      /\ prev # << >>
      /\ prev[1].variant = "full"
      /\ prev[1].dry_run
      /\ prev[1].fsStart = fsStart
      /\ Count(outcomes, "failed") = 0 )
    => /\ Len(prev[1].outcomes) = Len(outcomes)
       /\ \A k \in DOMAIN outcomes :
              Class(prev[1].outcomes[k]) = Class(outcomes[k])

(***************************************************************************)
(* C6.  Per-file failure isolation.                                        *)
(***************************************************************************)
\* A step in which the rename of the current entry fails.
RenameFailed == InRun /\ outcomes' = Append(outcomes, "failed")

\* Every entry processed so far has exactly one outcome, and at the end the
\* outcome counts add up to the number of candidates.
OneOutcomeEach ==
    InRun =>
        /\ Len(outcomes) = idx - 1
        /\ pc = "done" => Len(outcomes) = Len(image_files)
        /\ Count(outcomes, "renamed") + Count(outcomes, "would_rename")
             + Count(outcomes, "already") + Count(outcomes, "collision")
             + Count(outcomes, "failed") = Len(outcomes)
        /\ (variant = "full" /\ ~dry_run) =>
               renamed_count = Count(outcomes, "renamed")

\* C6: a failed rename leaves the directory as it was, is reported as failed
\* and moves the loop to the next entry; every step of the loop moves to the
\* next entry or, the list exhausted, prints the closing line; every entry
\* gets exactly one outcome and the counts add up.
C6_FailureIsolation ==
    /\ [][ RenameFailed =>
               /\ fs' = fs
               /\ pc' = "loop"
               /\ idx' = idx + 1
               /\ renamed_count' = renamed_count ]_vars
    /\ [][ (InRun /\ pc = "loop") =>
               \/ pc' = "loop" /\ idx' = idx + 1 /\ idx <= Len(image_files)
               \/ pc' = "done" /\ Len(outcomes') = Len(image_files')
                               /\ idx > Len(image_files) ]_vars
    /\ []OneOutcomeEach

C6_Witness ==
    /\ pc = "done"
    /\ LiveFullRun
    /\ Len(outcomes) = 3
    /\ outcomes[2] = "failed"
    /\ outcomes[3] = "renamed"
    /\ image_files[2] \in DOMAIN fs
    /\ summary = Count(outcomes, "renamed")

(***************************************************************************)
(* C7.  The minimal variant against the full variant.                      *)
(***************************************************************************)
\* C7 as stated: when every candidate has an extension both variants
\* recognize, rename_images_in_folder leaves the directory as
\* rename_images with start number 1 and no dry run leaves it (no rename
\* being refused in either).
C7_SameAsFull_AsStated ==
    ( /\ pc = "done"
      /\ InRun
      /\ variant = "simple"
      /\ Candidates(fsStart, IMAGE_EXTENSIONS) = Candidates(fsStart, image_extensions)
      /\ Count(outcomes, "failed") = 0 )
    => fs = RunRenameImages(fsStart, get_image_files(fsStart), 1, 1)

(***************************************************************************)
(* C8.  The count of the closing line of a dry run.                        *)
(***************************************************************************)
\* C8 as stated: the K of "Would rename K files" is the number of entries
\* the loop of the same run reported as would-rename.
C8_WouldRenameCount_AsStated ==
    (pc = "done" /\ DryFullRun /\ image_files # << >>)
    => summary = Count(outcomes, "would_rename")

(***************************************************************************)
(* C9.  Lifecycle of a candidate file.                                     *)
(***************************************************************************)
\* C9: at every point of a live run each file found at enumeration is in
\* the directory under exactly one name, its original name or its planned
\* name, and under a planned name different from the original only once its
\* entry has been processed with outcome renamed.
C9_Lifecycle ==
    LiveFullRun =>
        \A k \in DOMAIN image_files :
            /\ Cardinality(NamesOf(k)) = 1
            /\ NamesOf(k) \subseteq {image_files[k], PlannedName(k)}
            /\ (NamesOf(k) = {PlannedName(k)} /\ PlannedName(k) # image_files[k])
                   => (k < idx /\ outcomes[k] = "renamed")
            /\ (k < idx /\ outcomes[k] = "renamed")
                   => NamesOf(k) = {PlannedName(k)}

C9_Witness ==
    /\ LiveFullRun
    /\ pc = "loop"
    /\ Len(image_files) = 3
    /\ idx = 3
    /\ outcomes = << "renamed", "collision" >>
    /\ NamesOf(1) = {PlannedName(1)}
    /\ NamesOf(2) = {image_files[2]}
    /\ NamesOf(3) = {image_files[3]}

(***************************************************************************)
(* C10.  Nothing is lost, nothing else is touched.                         *)
(***************************************************************************)
\* C10: at every point of a run of rename_images the directory has as many
\* entries as at the start of the run, and every entry that is not a
\* candidate is still there under its name.
C10_NoLossAndFrame ==
    FullRun =>
        /\ Cardinality(DOMAIN fs) = Cardinality(DOMAIN fsStart)
        /\ \A n \in DOMAIN fsStart :
               ~(fsStart[n].kind = "file" /\ Lower(Suffix(n)) \in IMAGE_EXTENSIONS)
                   => (n \in DOMAIN fs /\ fs[n] = fsStart[n])

C10_Witness ==
    /\ LiveFullRun
    /\ pc = "done"
    /\ Count(outcomes, "renamed") >= 1
    /\ \E n \in DOMAIN fsStart : fsStart[n].kind = "dir"
    /\ \E n \in DOMAIN fsStart :
           fsStart[n].kind = "file" /\ Lower(Suffix(n)) \notin IMAGE_EXTENSIONS
    /\ Cardinality(DOMAIN fs) = 3

=============================================================================
